---- MODULE Spec2Model ----
(***************************************************************************)
(* reconbulk: a reconnaissance pipeline driver.                            *)
(*                                                                         *)
(* The repository holds two variants of the same program:                  *)
(*   "legacy"     src/reconbulk.go     (package-level config, strings.Replace *)
(*                                      templates, fire-and-forget goroutines) *)
(*   "refactored" src/unnamed/part_000 (text/template rendering, WaitGroups) *)
(* Both are modelled; the variable `variant` says which one a behaviour    *)
(* runs.                                                                   *)
(*                                                                         *)
(* A Go string is modelled as a sequence of symbols.  A symbol is a        *)
(* one-character TLA+ string ("a", " ", "[") or an atom standing for a     *)
(* fixed multi-character substring that the code searches for as a whole   *)
(* ("LF" for "\n", "*." , "https://", "{domain}", "{{.domain}}", ...).     *)
(***************************************************************************)
EXTENDS Integers, Sequences, FiniteSets, TLC

VARIABLES
    variant,          \* "legacy" | "refactored": which source file runs
    nargs,            \* len(os.Args)
    domain,           \* os.Args[1]
    resolversFile,    \* os.Args[2]
    config,           \* tool name -> argument templates (config.json)
    mainPc,           \* position of the main goroutine
    exited,           \* the process has terminated
    exitCode,         \* its exit status (-1 while running)
    exitCause,        \* why it terminated
    dirCreated,       \* the result directory exists
    mkdirCalls,       \* number of os.MkdirAll calls made
    handlerInstalled, \* signal.Notify has been called
    signalPending,    \* a SIGINT/SIGTERM sits in signalChan
    signalSeen,       \* a SIGINT/SIGTERM was delivered to the process
    cmd,              \* child process name -> status
    cmdArgs,          \* child process name -> rendered argv
    fsPc,             \* refactored: position of the findSubdomains goroutine
    wg,               \* refactored: counter of main's WaitGroup
    cmdWg,            \* refactored: counter of findSubdomains' WaitGroup
    seqWg,            \* refactored: counter of the last &sync.WaitGroup{} of a stage
    fs,               \* file path -> [st, data]
    wbuf,             \* bytes of the ioutil.WriteFile call in progress
    crtResp,          \* the crt.sh response curl returned
    crtServer         \* the responses crt.sh can give to this run

vars == <<variant, nargs, domain, resolversFile, config, mainPc, exited, exitCode,
          exitCause, dirCreated, mkdirCalls, handlerInstalled, signalPending,
          signalSeen, cmd, cmdArgs, fsPc, wg, cmdWg, seqWg, fs, wbuf, crtResp, crtServer>>

(***************************************************************************)
(* Bounds of the model.                                                    *)
(***************************************************************************)
\* total number of symbols over the five candidate files of a merge
MaxTotal == 2
\* number of argument templates of a tool in the rendering specification
MaxArgs == 2

(***************************************************************************)
(* Strings.                                                                *)
(***************************************************************************)
LF == "LF"

\* byte order of the symbols that reach sort.Strings
Rank(c) ==
    CASE c = "TAB" -> 9
      [] c = LF -> 10
      [] c = "CR" -> 13
      [] c = " " -> 32
      [] c = "*." -> 42
      [] c = "a" -> 97
      [] c = "b" -> 98
      [] c = "c" -> 99
      [] c = "d" -> 100
      [] c = "e" -> 101
      [] OTHER -> 120

\* unicode.IsSpace on the symbols of the model
IsSpace(c) == c \in {" ", "TAB", "CR", LF}

\* strings.Join(ss, sep)
RECURSIVE Join(_, _)
Join(ss, sep) ==
    IF ss = <<>> THEN <<>>
    ELSE IF Len(ss) = 1 THEN Head(ss)
    ELSE Head(ss) \o sep \o Join(Tail(ss), sep)

\* strings.Split(s, sep) for a one-symbol separator: always at least one piece
RECURSIVE SplitFrom(_, _, _)
SplitFrom(s, sep, cur) ==
    IF s = <<>> THEN <<cur>>
    ELSE IF Head(s) = sep THEN <<cur>> \o SplitFrom(Tail(s), sep, <<>>)
    ELSE SplitFrom(Tail(s), sep, Append(cur, Head(s)))

Split(s, sep) == SplitFrom(s, sep, <<>>)

RECURSIVE TrimLeft(_)
TrimLeft(s) == IF s # <<>> /\ IsSpace(Head(s)) THEN TrimLeft(Tail(s)) ELSE s

RECURSIVE TrimRight(_)
TrimRight(s) ==
    IF s # <<>> /\ IsSpace(s[Len(s)]) THEN TrimRight(SubSeq(s, 1, Len(s) - 1)) ELSE s

\* strings.TrimSpace
TrimSpace(s) == TrimRight(TrimLeft(s))

\* strings.Replace(s, old, new, -1) for a one-symbol old
RECURSIVE ReplaceAll(_, _, _)
ReplaceAll(s, old, new) ==
    IF s = <<>> THEN <<>>
    ELSE IF Head(s) = old THEN new \o ReplaceAll(Tail(s), old, new)
    ELSE <<Head(s)>> \o ReplaceAll(Tail(s), old, new)

\* strings.Replace(s, old, new, 1) for a one-symbol old: the first occurrence only
RECURSIVE ReplaceFirst(_, _, _)
ReplaceFirst(s, old, new) ==
    IF s = <<>> THEN <<>>
    ELSE IF Head(s) = old THEN new \o Tail(s)
    ELSE <<Head(s)>> \o ReplaceFirst(Tail(s), old, new)

\* Go's string order: bytewise lexicographic
RECURSIVE LexLess(_, _)
LexLess(a, b) ==
    IF b = <<>> THEN FALSE
    ELSE IF a = <<>> THEN TRUE
    ELSE IF Head(a) = Head(b) THEN LexLess(Tail(a), Tail(b))
    ELSE Rank(Head(a)) < Rank(Head(b))

\* sort.Strings over the keys of a map[string]struct{}
RECURSIVE SortStrings(_)
SortStrings(S) ==
    IF S = {} THEN <<>>
    ELSE LET m == CHOOSE x \in S : \A y \in S \ {x} : LexLess(x, y)
         IN <<m>> \o SortStrings(S \ {m})

\* all sequences over S of length at most n
RECURSIVE SeqsUpTo(_, _)
SeqsUpTo(S, n) ==
    IF n = 0 THEN {<<>>}
    ELSE LET shorter == SeqsUpTo(S, n - 1)
         IN shorter \cup {Append(s, x) : s \in {t \in shorter : Len(t) = n - 1}, x \in S}

Range(f) == {f[i] : i \in DOMAIN f}

(***************************************************************************)
(* Paths and the file system.                                              *)
(***************************************************************************)
ResultDir == "resultDir/"

DiscoveryTools == {"amass", "subfinder", "assetfinder", "findomain"}
SeqTools == {"massdns", "httpx", "naabu", "nuclei"}
Procs == DiscoveryTools \cup SeqTools \cup {"curl"}

\* the order of `tools` in findSubdomains, and of the start* calls
ToolOrder == <<"amass", "subfinder", "assetfinder", "findomain">>

\* filepath.Join(resultDir, fmt.Sprintf("%s_%s.txt", prefix, domain))
PrefixPath(prefix, dom) == <<ResultDir, prefix, "_">> \o dom \o <<".txt">>

\* filepath.Join(resultDir, fmt.Sprintf("%s.<ext>.txt", domain))
SuffixPath(dom, ext) == <<ResultDir>> \o dom \o <<ext>>

crtOutput(dom) == SuffixPath(dom, ".crt.txt")
subdomainsOutput(dom) == SuffixPath(dom, ".subdomains.txt")
ipsOutput(dom) == SuffixPath(dom, ".ips.txt")
httpxOutput(dom) == PrefixPath("httpx", dom)
sortedHttpxOutput(dom) == PrefixPath("sorted_httpx", dom)
naabuOutput(dom) == PrefixPath("naabu", dom)
nucleiOutput(dom) == PrefixPath("nuclei", dom)

\* the output file handed to a tool: outputFile / data["outputFile"]
toolOutput(t, dom) ==
    CASE t \in DiscoveryTools -> PrefixPath(t, dom)
      [] t = "massdns" -> ipsOutput(dom)
      [] t = "httpx" -> httpxOutput(dom)
      [] t = "naabu" -> naabuOutput(dom)
      [] t = "nuclei" -> nucleiOutput(dom)

\* every path the program or its tools touch
Paths(dom) ==
    {PrefixPath(p, dom) : p \in DiscoveryTools \cup {"crt", "httpx", "sorted_httpx", "naabu", "nuclei"}}
    \cup {SuffixPath(dom, e) : e \in {".crt.txt", ".subdomains.txt", ".ips.txt"}}

AbsentFile == [st |-> "absent", data |-> <<>>]
PartialFile == [st |-> "partial", data |-> <<>>]
File(bytes) == [st |-> "complete", data |-> bytes]

\* fileExists: os.Stat does not report IsNotExist
fileExists(fsys, p) == fsys[p].st # "absent"

(***************************************************************************)
(* Merge/Dedup reducer: combineSubdomains, writeUniqueSubdomainsToFile.    *)
(***************************************************************************)
\* subdomainFiles / files: the candidate files, in the order they are read
subdomainFiles(v, dom) ==
    IF v = "legacy"
    THEN <<PrefixPath("amass", dom), PrefixPath("subfinder", dom),
           PrefixPath("assetfinder", dom), PrefixPath("findomain", dom), crtOutput(dom)>>
    ELSE <<PrefixPath("amass", dom), PrefixPath("subfinder", dom),
           PrefixPath("assetfinder", dom), PrefixPath("findomain", dom), PrefixPath("crt", dom)>>

\* the inner loop: the non-empty trimmed lines of one file's bytes
fileLines(bytes) ==
    {TrimSpace(l) : l \in Range(Split(bytes, LF))} \ {<<>>}

\* a faulty fold, for comparison: a missing file ends the loop instead of being skipped
RECURSIVE combineFold_stopAtMissing(_, _, _)
combineFold_stopAtMissing(fsys, files, uniq) ==
    IF files = <<>> THEN uniq
    ELSE IF fileExists(fsys, Head(files))
    THEN combineFold_stopAtMissing(fsys, Tail(files), uniq \cup fileLines(fsys[Head(files)].data))
    ELSE uniq

\* the outer loop of combineSubdomains over the candidate files, in order
RECURSIVE combineFold(_, _, _)
combineFold(fsys, files, uniq) ==
    IF files = <<>> THEN uniq
    ELSE IF fileExists(fsys, Head(files))
    THEN combineFold(fsys, Tail(files), uniq \cup fileLines(fsys[Head(files)].data))
    ELSE combineFold(fsys, Tail(files), uniq)

\* the bytes writeUniqueSubdomainsToFile hands to ioutil.WriteFile
writeUniqueSubdomainsToFile(uniqueSubdomains) ==
    Join(SortStrings(uniqueSubdomains), <<LF>>) \o <<LF>>

\* the lines a reader finds in a newline-terminated file: the pieces between
\* line breaks, the empty piece after the last line break left out
linesOf(bytes) ==
    LET pieces == Split(bytes, LF)
    IN IF pieces[Len(pieces)] = <<>> THEN SubSeq(pieces, 1, Len(pieces) - 1) ELSE pieces


(***************************************************************************)
(* Command renderer: startCmd (both variants), renderTemplate.             *)
(***************************************************************************)
Tools == DiscoveryTools \cup SeqTools

\* toolsDir := "tools"
ToolsDir == <<"tools">>

\* legacy startCmd, one argument: four strings.Replace calls, in this order
startCmdArg(arg, dom, resultDir, outputFile, resolvers) ==
    ReplaceAll(ReplaceAll(ReplaceAll(ReplaceAll(arg,
        "{domain}", dom), "{dir}", resultDir), "{output}", outputFile),
        "{resolvers}", resolvers)

\* legacy startCmd: the argv of exec.Command, never an error
startCmd_legacy(args, dom, resultDir, outputFile, resolvers) ==
    [i \in 1..Len(args) |-> startCmdArg(args[i], dom, resultDir, outputFile, resolvers)]

\* the resolversFile argument of startAmass/startSubfinder/startAssetfinder/startFindomain
legacyResolvers(t, res) == IF t = "assetfinder" THEN <<>> ELSE res

\* text/template actions of the model: a field of the data map, by symbol
FieldActions ==
    {"{{.domain}}", "{{.resolversFile}}", "{{.outputDir}}", "{{.inputFile}}",
     "{{.outputFile}}", "{{.toolsDir}}", "{{.unknown}}"}

fieldKey(sym) ==
    CASE sym = "{{.domain}}" -> "domain"
      [] sym = "{{.resolversFile}}" -> "resolversFile"
      [] sym = "{{.outputDir}}" -> "outputDir"
      [] sym = "{{.inputFile}}" -> "inputFile"
      [] sym = "{{.outputFile}}" -> "outputFile"
      [] sym = "{{.toolsDir}}" -> "toolsDir"
      [] OTHER -> "unknown"

\* actions template.Parse rejects: an undefined function, an unclosed action
BadActions == {"{{unknown}}", "{{"}

\* tmpl.Execute over a map[string]string: a missing key prints "<no value>"
RECURSIVE executeTemplate(_, _)
executeTemplate(t, data) ==
    IF t = <<>> THEN <<>>
    ELSE LET c == Head(t)
             piece == IF c \in FieldActions
                      THEN IF fieldKey(c) \in DOMAIN data THEN data[fieldKey(c)]
                           ELSE <<"<no value>">>
                      ELSE <<c>>
         IN piece \o executeTemplate(Tail(t), data)

\* renderTemplate: (rendered, err)
renderTemplate(templateStr, data) ==
    IF \E i \in 1..Len(templateStr) : templateStr[i] \in BadActions
    THEN [err |-> TRUE, out |-> <<>>]
    ELSE [err |-> FALSE, out |-> executeTemplate(templateStr, data)]

\* refactored startCmd: data["toolsDir"] is set, every argument rendered;
\* err stands for the log.Fatalf of the first argument that fails
startCmd(args, data) ==
    LET d == [k \in DOMAIN data \cup {"toolsDir"} |->
                 IF k = "toolsDir" THEN ToolsDir ELSE data[k]]
        r == [i \in 1..Len(args) |-> renderTemplate(args[i], d)]
    IN [err |-> \E i \in 1..Len(args) : r[i].err,
        argv |-> [i \in 1..Len(args) |-> r[i].out]]

\* the data map each refactored caller builds
toolData(t, dom, res) ==
    CASE t \in DiscoveryTools ->
           [k \in {"domain", "resolversFile", "outputDir", "outputFile"} |->
               CASE k = "domain" -> dom
                 [] k = "resolversFile" -> res
                 [] k = "outputDir" -> <<ResultDir>>
                 [] k = "outputFile" -> toolOutput(t, dom)]
      [] t = "massdns" ->
           [k \in {"resolversFile", "inputFile", "outputFile"} |->
               CASE k = "resolversFile" -> res
                 [] k = "inputFile" -> subdomainsOutput(dom)
                 [] k = "outputFile" -> ipsOutput(dom)]
      [] t = "httpx" ->
           [k \in {"inputFile", "outputFile"} |->
               IF k = "inputFile" THEN subdomainsOutput(dom) ELSE httpxOutput(dom)]
      [] t \in {"naabu", "nuclei"} ->
           [k \in {"inputFile", "outputFile"} |->
               IF k = "inputFile" THEN sortedHttpxOutput(dom) ELSE toolOutput(t, dom)]

\* what startCmd yields for tool t in either variant
renderTool(v, t, args, dom, res) ==
    IF v = "legacy"
    THEN [err |-> FALSE,
          argv |-> startCmd_legacy(args, dom, <<ResultDir>>, toolOutput(t, dom),
                                   legacyResolvers(t, res))]
    ELSE startCmd(args, toolData(t, dom, res))

(***************************************************************************)
(* Probe-result normalizer: the second half of scanHttpx.                  *)
(***************************************************************************)
Digits == {"0", "1", "2", "3", "4", "5", "6", "7", "8", "9"}

digitVal(c) ==
    CASE c = "0" -> 0 [] c = "1" -> 1 [] c = "2" -> 2 [] c = "3" -> 3 [] c = "4" -> 4
      [] c = "5" -> 5 [] c = "6" -> 6 [] c = "7" -> 7 [] c = "8" -> 8 [] c = "9" -> 9

RECURSIVE digitsVal(_, _)
digitsVal(s, acc) ==
    IF s = <<>> THEN acc ELSE digitsVal(Tail(s), acc * 10 + digitVal(Head(s)))

\* strconv.Atoi with its error dropped: 0 unless an optionally signed digit string
Atoi(s) ==
    LET body == IF s # <<>> /\ Head(s) \in {"+", "-"} THEN Tail(s) ELSE s
    IN IF body = <<>> \/ \E i \in 1..Len(body) : body[i] \notin Digits THEN 0
       ELSE IF s[1] = "-" THEN 0 - digitsVal(body, 0) ELSE digitsVal(body, 0)

\* strings.Fields
RECURSIVE FieldsFrom(_, _)
FieldsFrom(s, cur) ==
    LET flush == IF cur = <<>> THEN <<>> ELSE <<cur>>
    IN IF s = <<>> THEN flush
       ELSE IF IsSpace(Head(s)) THEN flush \o FieldsFrom(Tail(s), <<>>)
       ELSE FieldsFrom(Tail(s), Append(cur, Head(s)))

Fields(s) == FieldsFrom(s, <<>>)

\* the byte classes of the ansi regexp, on the symbols of the model
IsParam(c) == c \in Digits \cup {";", ":", "?"}
IsIntermediate(c) == c \in {" ", "!", "/"}
IsFinal(c) == c \in {"m", "K", "a", "b", "z", "[", "]", "@"}
IsC1(c) == c \in {"K", "]", "@", "_"}

RECURSIVE skipWhile(_, _)
skipWhile(s, class) ==
    IF s # <<>> /\ ((class = "param" /\ IsParam(Head(s)))
                    \/ (class = "inter" /\ IsIntermediate(Head(s))))
    THEN skipWhile(Tail(s), class) ELSE s

\* the text left after a match of the regexp at the head of s, or <<"nomatch">>
ansiMatch(s) ==
    IF s = <<>> \/ Head(s) # "ESC" \/ Len(s) < 2 THEN <<"nomatch">>
    ELSE IF Len(s) >= 3 /\ IsC1(s[2]) /\ s[3] = "]" THEN <<"match", SubSeq(s, 4, Len(s))>>
    ELSE IF s[2] = "["
    THEN LET rest == skipWhile(skipWhile(SubSeq(s, 3, Len(s)), "param"), "inter")
         IN IF rest # <<>> /\ IsFinal(Head(rest)) THEN <<"match", Tail(rest)>>
            ELSE <<"nomatch">>
    ELSE <<"nomatch">>

\* stripANSI: ansi.ReplaceAllString(text, "")
RECURSIVE stripANSI(_)
stripANSI(text) ==
    IF text = <<>> THEN <<>>
    ELSE LET m == ansiMatch(text)
         IN IF m[1] = "match" THEN stripANSI(m[2])
            ELSE <<Head(text)>> \o stripANSI(Tail(text))

\* stripBrackets
stripBrackets(text) == ReplaceAll(ReplaceAll(text, "[", <<>>), "]", <<>>)

\* the lines kept for sorting: stripped, the empty ones dropped
RECURSIVE keepNonEmpty(_)
keepNonEmpty(ls) ==
    IF ls = <<>> THEN <<>>
    ELSE IF Len(Head(ls)) > 0 THEN <<Head(ls)>> \o keepNonEmpty(Tail(ls))
    ELSE keepNonEmpty(Tail(ls))

sortedLinesOf(bytes) ==
    LET lines == Split(bytes, LF)
    IN keepNonEmpty([i \in 1..Len(lines) |-> stripBrackets(stripANSI(lines[i]))])

\* the key of the less function; it indexes Fields(line)[1] (zero-based)
statusCode(line) == Atoi(Fields(line)[2])

\* the body of the withUrls loop
hostOf(line) ==
    ReplaceFirst(ReplaceFirst(Fields(line)[1], "https://", <<>>), "http://", <<>>)

\* index out of range: the less function runs on every element once there are
\* two, the withUrls loop on every element
normalizePanics(ls) ==
    \/ \E i \in 1..Len(ls) : Len(Fields(ls[i])) = 0
    \/ Len(ls) >= 2 /\ \E i \in 1..Len(ls) : Len(Fields(ls[i])) < 2

\* every arrangement of the elements of S, as a sequence
RECURSIVE PermSeqs(_)
PermSeqs(S) ==
    IF S = {} THEN {<<>>}
    ELSE UNION {{<<x>> \o r : r \in PermSeqs(S \ {x})} : x \in S}

Perms(n) == PermSeqs(1..n)

\* sort.Slice: some arrangement of the elements that is ordered by less
\* (the sort is not guaranteed to be stable)
sortSlice(ls) ==
    {[i \in 1..Len(ls) |-> ls[p[i]]] :
        p \in {q \in Perms(Len(ls)) :
                 \A i \in 1..(Len(ls) - 1) : statusCode(ls[q[i]]) <= statusCode(ls[q[i + 1]])}}

\* the bytes written to sorted_httpx_<domain>.txt, for one sorted arrangement
withUrlsBytes(sorted) ==
    Join([i \in 1..Len(sorted) |-> hostOf(sorted[i])], <<LF>>) \o <<LF>>

\* every content scanHttpx may write for the probe file's bytes
normalizeOutputs(bytes) ==
    LET ls == sortedLinesOf(bytes)
    IN IF Len(ls) < 2 THEN {withUrlsBytes(ls)}
       ELSE {withUrlsBytes(s) : s \in sortSlice(ls)}

(***************************************************************************)
(* Certificate-transparency collector: scanCRT.                            *)
(***************************************************************************)
\* json.Unmarshal(response, &data) fails unless the response is a JSON array
unmarshalFails(resp) == resp.kind # "array"

\* entry["name_value"].(string) panics in the legacy variant
crtPanics(resp) ==
    resp.kind = "array" /\ \E i \in 1..Len(resp.entries) : resp.entries[i].type # "string"

\* the uniqueSubdomains map after the loop over data
crtSubdomains(resp) ==
    IF resp.kind # "array" THEN {}
    ELSE {ReplaceAll(resp.entries[i].name, "*.", <<>>) :
            i \in {j \in 1..Len(resp.entries) :
                     resp.entries[j].type = "string" /\ resp.entries[j].name # <<>>}}


(***************************************************************************)
(* Inputs of a pipeline run.                                               *)
(***************************************************************************)
\* config.json written for the variant that reads it
goodArgs(v, t) ==
    IF v = "legacy"
    THEN << <<"-d">>, <<"{domain}">>, <<"-o">>, <<"{output}">> >>
    ELSE IF t \in DiscoveryTools
    THEN << <<"-d">>, <<"{{.domain}}">>, <<"-o">>, <<"{{.outputFile}}">> >>
    ELSE << <<"-l">>, <<"{{.inputFile}}">>, <<"-o">>, <<"{{.outputFile}}">> >>

\* an argument template holding a substitution token nobody defines
badArgs(v) ==
    IF v = "legacy" THEN << <<"-x">>, <<"{unknown}">> >>
    ELSE << <<"-x">>, <<"{{unknown}}">> >>

\* the tool whose template is wrong, if any (the legacy Config has no massdns
\* entry: findIPs hard-codes its command)
PipelineBadTools(v) ==
    IF v = "legacy" THEN {"none", "subfinder"} ELSE {"none", "subfinder", "massdns"}

PipelineConfig(v, bad) == [t \in Tools |-> IF t = bad THEN badArgs(v) ELSE goodArgs(v, t)]

\* what a discovery tool that succeeds leaves in its output file
discoveryOutput(t) ==
    CASE t = "amass" -> <<"a", LF, "b", LF>>
      [] t = "subfinder" -> <<"b", LF, LF>>
      [] t = "assetfinder" -> <<" ", "c", LF>>
      [] t = "findomain" -> <<"d", LF>>

\* crt.sh responses of a pipeline run
NoResponse == [kind |-> "none", entries |-> <<>>]

PipelineCrtResponses ==
    {[kind |-> "empty", entries |-> <<>>],
     [kind |-> "invalid", entries |-> <<>>],
     [kind |-> "object", entries |-> <<>>],
     [kind |-> "array", entries |-> << [type |-> "string", name |-> <<"*.", "e">>] >>],
     [kind |-> "array", entries |-> << [type |-> "missing", name |-> <<>>] >>]}

\* httpx reports of a pipeline run: two good lines, one line without a status, none
PipelineProbeOutputs ==
    {<<"https://", "z", " ", "[", "4", "0", "4", "]", LF,
       "http://", "a", " ", "[", "2", "0", "0", "]", LF>>,
     <<"a", LF, "z", LF>>,
     <<>>}

\* the hard-coded argv of the legacy sequential stages
legacyArgv(s, dom, res) ==
    CASE s = "massdns" -> << <<"-r">>, res, <<"-t">>, <<"A">>, <<"-o">>, <<"S">>, <<"-w">>,
                             ipsOutput(dom), subdomainsOutput(dom) >>
      [] s = "httpx" -> << <<"-l">>, subdomainsOutput(dom), <<"-title">>, <<"-tech-detect">>,
                           <<"-status-code">>, <<"-o">>, httpxOutput(dom) >>
      [] s = "naabu" -> << <<"-list">>, sortedHttpxOutput(dom), <<"-o">>, naabuOutput(dom) >>
      [] s = "nuclei" -> << <<"-list">>, sortedHttpxOutput(dom), <<"-o">>, nucleiOutput(dom) >>

(***************************************************************************)
(* The state machine.                                                      *)
(***************************************************************************)
envVars == <<variant, nargs, domain, resolversFile, config, crtServer>>
exitVars == <<exited, exitCode, exitCause>>
sigVars == <<handlerInstalled, signalPending, signalSeen>>
wgVars == <<fsPc, wg, cmdWg, seqWg>>

InitCommon ==
    /\ mainPc = "start"
    /\ exited = FALSE
    /\ exitCode = -1
    /\ exitCause = "none"
    /\ dirCreated = FALSE
    /\ mkdirCalls = 0
    /\ handlerInstalled = FALSE
    /\ signalPending = FALSE
    /\ signalSeen = FALSE
    /\ cmd = [p \in Procs |-> "none"]
    /\ cmdArgs = [p \in Procs |-> <<>>]
    /\ fsPc = "idle"
    /\ wg = 0
    /\ cmdWg = 0
    /\ seqWg = 0
    /\ wbuf = <<>>
    /\ crtResp = NoResponse
    /\ crtServer = PipelineCrtResponses

Init ==
    /\ variant \in {"legacy", "refactored"}
    /\ nargs \in 1..3
    /\ domain = <<"d">>
    /\ resolversFile = <<"r">>
    /\ \E bad \in PipelineBadTools(variant) : config = PipelineConfig(variant, bad)
    /\ fs = [p \in Paths(domain) |-> AbsentFile]
    /\ InitCommon

\* os.Exit, log.Fatal, a panic, or main returning
Exit(code, cause) ==
    /\ exited' = TRUE
    /\ exitCode' = code
    /\ exitCause' = cause

\* a faulty main, for comparison: no usage check, it goes on to load the
\* configuration whatever the arguments
checkArgs_unchecked ==
    /\ ~exited /\ mainPc = "start"
    /\ mainPc' = "loadConfig"
    /\ UNCHANGED exitVars
    /\ UNCHANGED <<envVars, dirCreated, mkdirCalls, sigVars, cmd, cmdArgs, wgVars, fs, wbuf, crtResp>>

\* main: the usage check
checkArgs ==
    /\ ~exited /\ mainPc = "start"
    /\ IF nargs < 3
       THEN Exit(1, "usage") /\ mainPc' = mainPc
       ELSE mainPc' = "loadConfig" /\ UNCHANGED exitVars
    /\ UNCHANGED <<envVars, dirCreated, mkdirCalls, sigVars, cmd, cmdArgs, wgVars, fs, wbuf, crtResp>>

\* loadConfig("config.json"): both variants end the run when it fails
loadConfig ==
    /\ ~exited /\ mainPc = "loadConfig"
    /\ \E ok \in BOOLEAN :
          IF ok THEN mainPc' = "mkdir" /\ UNCHANGED exitVars
          ELSE Exit(1, "config") /\ mainPc' = mainPc
    /\ UNCHANGED <<envVars, dirCreated, mkdirCalls, sigVars, cmd, cmdArgs, wgVars, fs, wbuf, crtResp>>

\* os.MkdirAll(resultDir): legacy drops the error, refactored checks it
mkdirAll ==
    /\ ~exited /\ mainPc = "mkdir"
    /\ mkdirCalls' = mkdirCalls + 1
    /\ \E ok \in BOOLEAN :
          /\ dirCreated' = ok
          /\ IF ok \/ variant = "legacy"
             THEN mainPc' = "notify" /\ UNCHANGED exitVars
             ELSE Exit(1, "mkdir") /\ mainPc' = mainPc
    /\ UNCHANGED <<envVars, sigVars, cmd, cmdArgs, wgVars, fs, wbuf, crtResp>>

\* signal.Notify and the goroutine that waits on signalChan
installHandler ==
    /\ ~exited /\ mainPc = "notify"
    /\ handlerInstalled' = TRUE
    /\ mainPc' = "fanout"
    /\ UNCHANGED <<envVars, exitVars, dirCreated, mkdirCalls, signalPending, signalSeen,
                   cmd, cmdArgs, wgVars, fs, wbuf, crtResp>>

\* the operator sends SIGINT or SIGTERM
deliverSignal ==
    /\ ~exited /\ ~signalSeen
    /\ signalSeen' = TRUE
    /\ IF handlerInstalled
       THEN signalPending' = TRUE /\ UNCHANGED exitVars
       ELSE signalPending' = FALSE /\ Exit(130, "killed")
    /\ UNCHANGED <<envVars, mainPc, dirCreated, mkdirCalls, handlerInstalled,
                   cmd, cmdArgs, wgVars, fs, wbuf, crtResp>>

\* the handler goroutine: <-signalChan; os.Exit(1)
handlerExit ==
    /\ ~exited /\ signalPending
    /\ Exit(1, "signal")
    /\ UNCHANGED <<envVars, mainPc, dirCreated, mkdirCalls, sigVars,
                   cmd, cmdArgs, wgVars, fs, wbuf, crtResp>>


(***************************************************************************)
(* Fan-out discovery stage.                                                *)
(***************************************************************************)
WaitPc == [t \in DiscoveryTools |->
             CASE t = "amass" -> "wait_amass"
               [] t = "subfinder" -> "wait_subfinder"
               [] t = "assetfinder" -> "wait_assetfinder"
               [] t = "findomain" -> "wait_findomain"]

AfterWaitPc == [t \in DiscoveryTools |->
                  CASE t = "amass" -> "wait_subfinder"
                    [] t = "subfinder" -> "wait_assetfinder"
                    [] t = "assetfinder" -> "wait_findomain"
                    [] t = "findomain" -> "crt"]

\* cmd.Run() has returned: nil ("ok"), or an error ("failed": the process
\* could not be launched, or it exited with a non-zero status)
Terminated == {"ok", "failed"}

\* legacy findSubdomains: four start* calls, four `go executeCmd(cmd, 5)`, return
findSubdomains_legacy ==
    /\ ~exited /\ mainPc = "fanout" /\ variant = "legacy"
    /\ cmdArgs' = [p \in Procs |->
                     IF p \in DiscoveryTools
                     THEN renderTool(variant, p, config[p], domain, resolversFile).argv
                     ELSE cmdArgs[p]]
    /\ cmd' = [p \in Procs |-> IF p \in DiscoveryTools THEN "created" ELSE cmd[p]]
    /\ mainPc' = "wait_amass"
    /\ UNCHANGED <<envVars, exitVars, dirCreated, mkdirCalls, sigVars, wgVars, fs, wbuf, crtResp>>

\* legacy main: amassCmd.Wait() ... findomainCmd.Wait().  Wait on a command
\* that was not started returns "exec: not started" at once; on a running one
\* it returns when the process has exited.
waitCmd_legacy(t) ==
    /\ ~exited /\ variant = "legacy" /\ mainPc = WaitPc[t]
    /\ cmd[t] # "running"
    /\ mainPc' = AfterWaitPc[t]
    /\ UNCHANGED <<envVars, exitVars, dirCreated, mkdirCalls, sigVars, cmd, cmdArgs,
                   wgVars, fs, wbuf, crtResp>>

\* refactored main: wg.Add(1); go findSubdomains(...)
findSubdomains_go ==
    /\ ~exited /\ mainPc = "fanout" /\ variant = "refactored"
    /\ wg' = wg + 1
    /\ fsPc' = "loop"
    /\ mainPc' = "wgWait"
    /\ UNCHANGED <<envVars, exitVars, dirCreated, mkdirCalls, sigVars, cmd, cmdArgs,
                   cmdWg, seqWg, fs, wbuf, crtResp>>

\* refactored main: wg.Wait()
wgWait ==
    /\ ~exited /\ mainPc = "wgWait"
    /\ wg = 0
    /\ mainPc' = "crt"
    /\ UNCHANGED <<envVars, exitVars, dirCreated, mkdirCalls, sigVars, cmd, cmdArgs,
                   wgVars, fs, wbuf, crtResp>>

\* the tool the loop of findSubdomains handles next
nextTool == ToolOrder[Cardinality({t \in DiscoveryTools : cmd[t] # "none"}) + 1]

\* refactored findSubdomains, one iteration of the loop over tools:
\* startCmd (log.Fatalf when a template fails), cmdWg.Add(1), go executeCmd
findSubdomains_loop ==
    /\ ~exited /\ fsPc = "loop"
    /\ LET t == nextTool
           r == renderTool(variant, t, config[t], domain, resolversFile)
       IN IF r.err
          THEN /\ Exit(1, "render")
               /\ UNCHANGED <<cmd, cmdArgs, wgVars>>
          ELSE /\ cmdArgs' = [cmdArgs EXCEPT ![t] = r.argv]
               /\ cmd' = [cmd EXCEPT ![t] = "created"]
               /\ cmdWg' = cmdWg + 1
               /\ fsPc' = IF t = ToolOrder[Len(ToolOrder)] THEN "wait" ELSE "loop"
               /\ UNCHANGED <<exitVars, wg, seqWg>>
    /\ UNCHANGED <<envVars, mainPc, dirCreated, mkdirCalls, sigVars, fs, wbuf, crtResp>>

\* refactored findSubdomains: cmdWg.Wait(), then the deferred wg.Done()
findSubdomains_join ==
    /\ ~exited /\ fsPc = "wait"
    /\ cmdWg = 0
    /\ wg' = wg - 1
    /\ fsPc' = "done"
    /\ UNCHANGED <<envVars, exitVars, mainPc, dirCreated, mkdirCalls, sigVars, cmd, cmdArgs,
                   cmdWg, seqWg, fs, wbuf, crtResp>>

\* the deferred wg.Done() of refactored executeCmd; legacy executeCmd has none
cmdWgDone == IF variant = "refactored" THEN cmdWg - 1 ELSE cmdWg

\* executeCmd in its goroutine, cmd.Run() begins: the process is spawned, or
\* the launch fails (missing binary) and Run returns
executeCmd_start(t) ==
    /\ ~exited /\ t \in DiscoveryTools /\ cmd[t] = "created"
    /\ \E launched \in BOOLEAN :
          IF launched
          THEN cmd' = [cmd EXCEPT ![t] = "running"] /\ cmdWg' = cmdWg
          ELSE cmd' = [cmd EXCEPT ![t] = "failed"] /\ cmdWg' = cmdWgDone
    /\ UNCHANGED <<envVars, exitVars, mainPc, dirCreated, mkdirCalls, sigVars, cmdArgs,
                   fsPc, wg, seqWg, fs, wbuf, crtResp>>

\* the discovery process exits and cmd.Run() returns: with status 0 it has
\* written its output file; the error of a failure is dropped (legacy) or logged
executeCmd_exit(t) ==
    /\ ~exited /\ t \in DiscoveryTools /\ cmd[t] = "running"
    /\ \E ok \in BOOLEAN :
          IF ok /\ dirCreated
          THEN /\ cmd' = [cmd EXCEPT ![t] = "ok"]
               /\ fs' = [fs EXCEPT ![toolOutput(t, domain)] = File(discoveryOutput(t))]
          ELSE /\ cmd' = [cmd EXCEPT ![t] = "failed"]
               /\ fs' = fs
    /\ cmdWg' = cmdWgDone
    /\ UNCHANGED <<envVars, exitVars, mainPc, dirCreated, mkdirCalls, sigVars, cmdArgs,
                   fsPc, wg, seqWg, wbuf, crtResp>>

(***************************************************************************)
(* ioutil.WriteFile: open with O_TRUNC, write, close.                      *)
(***************************************************************************)
\* the file is opened and truncated, or the call fails and checkErr ends the run
beginWrite(path, bytes, next) ==
    \/ /\ dirCreated
       /\ fs' = [fs EXCEPT ![path] = PartialFile]
       /\ wbuf' = bytes
       /\ mainPc' = next
       /\ UNCHANGED exitVars
    \/ /\ Exit(1, "io_write")
       /\ UNCHANGED <<fs, wbuf, mainPc>>

\* the bytes are on disk and the file is closed
finishWrite(path, next) ==
    /\ fs' = [fs EXCEPT ![path] = File(wbuf)]
    /\ wbuf' = <<>>
    /\ mainPc' = next

(***************************************************************************)
(* Certificate-transparency collector and merge.                           *)
(***************************************************************************)
\* scanCRT: exec.Command("curl", "-s", crtURL).Output() starts curl
scanCRT_curl ==
    /\ ~exited /\ mainPc = "crt"
    /\ \E launched \in BOOLEAN :
          IF launched
          THEN /\ cmd' = [cmd EXCEPT !["curl"] = "running"]
               /\ mainPc' = "crt_curl"
               /\ UNCHANGED exitVars
          ELSE /\ cmd' = [cmd EXCEPT !["curl"] = "failed"]
               /\ mainPc' = mainPc
               /\ Exit(1, "crt_transport")
    /\ UNCHANGED <<envVars, dirCreated, mkdirCalls, sigVars, cmdArgs, wgVars, fs, wbuf, crtResp>>

\* scanCRT: curl fails and checkErr ends the run
scanCRT_transportError ==
    /\ ~exited /\ mainPc = "crt_curl"
    /\ cmd' = [cmd EXCEPT !["curl"] = "failed"]
    /\ Exit(1, "crt_transport")
    /\ UNCHANGED <<envVars, mainPc, dirCreated, mkdirCalls, sigVars, cmdArgs, wgVars,
                   fs, wbuf, crtResp>>

\* scanCRT: curl returns a response; json.Unmarshal (its error dropped by
\* legacy, fatal in refactored), the loop over data (the unchecked type
\* assertion of legacy panics), writeUniqueSubdomainsToFile begins
scanCRT_parse ==
    /\ ~exited /\ mainPc = "crt_curl"
    /\ cmd' = [cmd EXCEPT !["curl"] = "ok"]
    /\ \E resp \in crtServer :
          /\ crtResp' = resp
          /\ IF variant = "refactored" /\ unmarshalFails(resp)
             THEN Exit(1, "crt_json") /\ UNCHANGED <<fs, wbuf, mainPc>>
             ELSE IF variant = "legacy" /\ crtPanics(resp)
             THEN Exit(2, "crt_panic") /\ UNCHANGED <<fs, wbuf, mainPc>>
             ELSE beginWrite(crtOutput(domain),
                             writeUniqueSubdomainsToFile(crtSubdomains(resp)), "crt_write")
    /\ UNCHANGED <<envVars, dirCreated, mkdirCalls, sigVars, cmdArgs, wgVars>>

\* scanCRT: the write of <domain>.crt.txt completes
scanCRT_written ==
    /\ ~exited /\ mainPc = "crt_write"
    /\ finishWrite(crtOutput(domain), "combine")
    /\ UNCHANGED <<envVars, exitVars, dirCreated, mkdirCalls, sigVars, cmd, cmdArgs,
                   wgVars, crtResp>>

\* combineSubdomains: read the candidate files, begin writing the merged file
combineSubdomains ==
    /\ ~exited /\ mainPc = "combine"
    /\ beginWrite(subdomainsOutput(domain),
                  writeUniqueSubdomainsToFile(
                      combineFold(fs, subdomainFiles(variant, domain), {})),
                  "combine_write")
    /\ UNCHANGED <<envVars, dirCreated, mkdirCalls, sigVars, cmd, cmdArgs, wgVars, crtResp>>

\* combineSubdomains: the write of <domain>.subdomains.txt completes
combineSubdomains_written ==
    /\ ~exited /\ mainPc = "combine_write"
    /\ finishWrite(subdomainsOutput(domain), "findips")
    /\ UNCHANGED <<envVars, exitVars, dirCreated, mkdirCalls, sigVars, cmd, cmdArgs,
                   wgVars, crtResp>>


(***************************************************************************)
(* Sequential pipeline: findIPs, scanHttpx, scanNaabu, scanNuclei.         *)
(***************************************************************************)
StagePc == [s \in SeqTools |->
              CASE s = "massdns" -> "findips"
                [] s = "httpx" -> "httpx"
                [] s = "naabu" -> "naabu"
                [] s = "nuclei" -> "nuclei"]

RunPc == [s \in SeqTools |->
            CASE s = "massdns" -> "findips_run"
              [] s = "httpx" -> "httpx_run"
              [] s = "naabu" -> "naabu_run"
              [] s = "nuclei" -> "nuclei_run"]

\* where main goes when the stage's function returns
NextPc == [s \in SeqTools |->
             CASE s = "massdns" -> "httpx"
               [] s = "httpx" -> "normalize"
               [] s = "naabu" -> "nuclei"
               [] s = "nuclei" -> "done"]

\* what the tool of a stage leaves in its output file when it succeeds
StageOutputs(s) ==
    IF s = "httpx" THEN PipelineProbeOutputs ELSE {<<"x", LF>>}

\* cmd.Run() has returned in a sequential stage.  Legacy goes on (main
\* returns after scanNuclei).  Refactored ran it through
\* executeCmd(cmd, &sync.WaitGroup{}): the deferred wg.Done() takes the
\* counter of the fresh WaitGroup below zero, and sync panics.
afterRun(s) ==
    IF variant = "refactored"
    THEN /\ seqWg' = seqWg - 1
         /\ Exit(2, "wg_panic")
         /\ mainPc' = mainPc
    ELSE /\ seqWg' = seqWg
         /\ mainPc' = NextPc[s]
         /\ IF NextPc[s] = "done" THEN Exit(0, "done") ELSE UNCHANGED exitVars

\* a faulty stage, for comparison: it starts its tool and goes on without waiting for it
stage_start_async(s) ==
    /\ ~exited /\ s \in SeqTools /\ mainPc = StagePc[s]
    /\ cmd' = [cmd EXCEPT ![s] = "running"]
    /\ mainPc' = NextPc[s]
    /\ IF NextPc[s] = "done" THEN Exit(0, "done") ELSE UNCHANGED exitVars
    /\ UNCHANGED <<envVars, dirCreated, mkdirCalls, sigVars, cmdArgs, wgVars, fs, wbuf, crtResp>>

\* a sequential stage up to the start of its tool: the argv (hard-coded in
\* legacy, startCmd in refactored, log.Fatalf when a template fails), then
\* cmd.Run() spawns the process or fails to launch it
stage_start(s) ==
    /\ ~exited /\ s \in SeqTools /\ mainPc = StagePc[s]
    /\ LET r == IF variant = "legacy"
                THEN [err |-> FALSE, argv |-> legacyArgv(s, domain, resolversFile)]
                ELSE renderTool(variant, s, config[s], domain, resolversFile)
       IN IF r.err
          THEN /\ Exit(1, "render")
               /\ UNCHANGED <<cmd, cmdArgs, mainPc, seqWg>>
          ELSE /\ cmdArgs' = [cmdArgs EXCEPT ![s] = r.argv]
               /\ \E launched \in BOOLEAN :
                     IF launched
                     THEN /\ cmd' = [cmd EXCEPT ![s] = "running"]
                          /\ mainPc' = RunPc[s]
                          /\ seqWg' = 0
                          /\ UNCHANGED exitVars
                     ELSE /\ cmd' = [cmd EXCEPT ![s] = "failed"]
                          /\ afterRun(s)
    /\ UNCHANGED <<envVars, dirCreated, mkdirCalls, sigVars, fsPc, wg, cmdWg, fs, wbuf, crtResp>>

\* the tool of a sequential stage exits and cmd.Run() returns
stage_exit(s) ==
    /\ ~exited /\ s \in SeqTools /\ mainPc = RunPc[s] /\ cmd[s] = "running"
    /\ \/ /\ dirCreated
          /\ cmd' = [cmd EXCEPT ![s] = "ok"]
          /\ \E out \in StageOutputs(s) :
                fs' = [fs EXCEPT ![toolOutput(s, domain)] = File(out)]
       \/ /\ cmd' = [cmd EXCEPT ![s] = "failed"]
          /\ fs' = fs
    /\ afterRun(s)
    /\ UNCHANGED <<envVars, dirCreated, mkdirCalls, sigVars, cmdArgs, fsPc, wg, cmdWg,
                   wbuf, crtResp>>

\* scanHttpx after the probe: ioutil.ReadFile(httpxOutput) (checkErr ends the
\* run when it fails), strip, sort (index out of range panics), begin the
\* write of sorted_httpx_<domain>.txt
scanHttpx_normalize ==
    /\ ~exited /\ mainPc = "normalize"
    /\ IF ~fileExists(fs, httpxOutput(domain))
       THEN Exit(1, "read_probe") /\ UNCHANGED <<fs, wbuf, mainPc>>
       ELSE IF normalizePanics(sortedLinesOf(fs[httpxOutput(domain)].data))
       THEN Exit(2, "normalize_panic") /\ UNCHANGED <<fs, wbuf, mainPc>>
       ELSE \E out \in normalizeOutputs(fs[httpxOutput(domain)].data) :
               beginWrite(sortedHttpxOutput(domain), out, "normalize_write")
    /\ UNCHANGED <<envVars, dirCreated, mkdirCalls, sigVars, cmd, cmdArgs, wgVars, crtResp>>

\* scanHttpx: the write of sorted_httpx_<domain>.txt completes
scanHttpx_written ==
    /\ ~exited /\ mainPc = "normalize_write"
    /\ finishWrite(sortedHttpxOutput(domain), "naabu")
    /\ UNCHANGED <<envVars, exitVars, dirCreated, mkdirCalls, sigVars, cmd, cmdArgs,
                   wgVars, crtResp>>

Next ==
    \/ checkArgs
    \/ loadConfig
    \/ mkdirAll
    \/ installHandler
    \/ deliverSignal
    \/ handlerExit
    \/ findSubdomains_legacy
    \/ \E t \in DiscoveryTools : waitCmd_legacy(t)
    \/ findSubdomains_go
    \/ wgWait
    \/ findSubdomains_loop
    \/ findSubdomains_join
    \/ \E t \in DiscoveryTools : executeCmd_start(t)
    \/ \E t \in DiscoveryTools : executeCmd_exit(t)
    \/ scanCRT_curl
    \/ scanCRT_transportError
    \/ scanCRT_parse
    \/ scanCRT_written
    \/ combineSubdomains
    \/ combineSubdomains_written
    \/ \E s \in SeqTools : stage_start(s)
    \/ \E s \in SeqTools : stage_exit(s)
    \/ scanHttpx_normalize
    \/ scanHttpx_written

Spec == Init /\ [][Next]_vars


(***************************************************************************)
(* The reducer on arbitrary candidate files: a run that has reached        *)
(* combineSubdomains, the tools having left any bytes behind.              *)
(***************************************************************************)
MergeAlphabet == {"a", "b", " ", LF}

\* a candidate file: absent, or holding at most budget symbols
Contents(budget) == {AbsentFile} \cup {File(c) : c \in SeqsUpTo(MergeAlphabet, budget)}

\* the file system with the five candidate files as given, nothing else
candidateFs(v, dom, f1, f2, f3, f4, f5) ==
    LET files == subdomainFiles(v, dom)
        given == <<f1, f2, f3, f4, f5>>
    IN [p \in Paths(dom) |->
          IF \E i \in 1..Len(files) : files[i] = p
          THEN given[CHOOSE i \in 1..Len(files) : files[i] = p]
          ELSE AbsentFile]

InitMerge ==
    /\ variant \in {"legacy", "refactored"}
    /\ nargs = 3
    /\ domain = <<"d">>
    /\ resolversFile = <<"r">>
    /\ config = PipelineConfig(variant, "none")
    /\ \E f1 \in Contents(MaxTotal) :
       \E f2 \in Contents(MaxTotal - Len(f1.data)) :
       \E f3 \in Contents(MaxTotal - Len(f1.data) - Len(f2.data)) :
       \E f4 \in Contents(MaxTotal - Len(f1.data) - Len(f2.data) - Len(f3.data)) :
       \E f5 \in Contents(MaxTotal - Len(f1.data) - Len(f2.data) - Len(f3.data)
                              - Len(f4.data)) :
          fs = candidateFs(variant, domain, f1, f2, f3, f4, f5)
    /\ mainPc = "combine"
    /\ exited = FALSE
    /\ exitCode = -1
    /\ exitCause = "none"
    /\ dirCreated = TRUE
    /\ mkdirCalls = 1
    /\ handlerInstalled = TRUE
    /\ signalPending = FALSE
    /\ signalSeen = FALSE
    /\ cmd = [p \in Procs |-> IF p \in DiscoveryTools \cup {"curl"} THEN "ok" ELSE "none"]
    /\ cmdArgs = [p \in Procs |-> <<>>]
    /\ fsPc = "idle"
    /\ wg = 0
    /\ cmdWg = 0
    /\ seqWg = 0
    /\ wbuf = <<>>
    /\ crtResp = NoResponse
    /\ crtServer = PipelineCrtResponses

NextMerge ==
    \/ combineSubdomains
    \/ combineSubdomains_written

SpecMerge == InitMerge /\ [][NextMerge]_vars

\* the merged file, once combineSubdomains has returned
mergedWritten == mainPc = "findips" /\ fs[subdomainsOutput(domain)].st = "complete"
mergedBytes == fs[subdomainsOutput(domain)].data

\* the candidate files that are present
presentCandidates ==
    {p \in Range(subdomainFiles(variant, domain)) : fs[p].st # "absent"}

\* the distinct non-blank whitespace-trimmed lines of the present candidates
expectedLines ==
    {l \in {TrimSpace(x) : x \in UNION {Range(Split(fs[p].data, LF)) : p \in presentCandidates}} :
       l # <<>>}

StrictlyAscending(ls) == \A i \in 1..(Len(ls) - 1) : LexLess(ls[i], ls[i + 1])

\* C6: once combineSubdomains has returned, the lines of the merged file are
\* exactly the distinct non-blank trimmed lines of the candidate files that
\* are present, each once, in ascending order
C6_MergeResult ==
    mergedWritten =>
        /\ Range(linesOf(mergedBytes)) = expectedLines
        /\ StrictlyAscending(linesOf(mergedBytes))

\* C6 away from the empty result: with at least one non-blank line among the
\* candidates the merged file is as the claim says
C6_MergeResult_NonEmpty ==
    (mergedWritten /\ expectedLines # {}) =>
        /\ Range(linesOf(mergedBytes)) = expectedLines
        /\ StrictlyAscending(linesOf(mergedBytes))
        /\ mergedBytes = Join(linesOf(mergedBytes), <<LF>>) \o <<LF>>


\* every order in which the five candidate files can be read
FileOrders == Perms(Len(ToolOrder) + 1)

\* number of extra copies of a line tried
MaxRepeat == 2

RECURSIVE Copies(_, _)
Copies(x, k) == IF k = 0 THEN <<>> ELSE <<x>> \o Copies(x, k - 1)

\* file p with its i-th line repeated k more times
withRepeatedLine(fsys, p, i, k) ==
    LET ls == Split(fsys[p].data, LF)
    IN [fsys EXCEPT ![p] = File(Join(SubSeq(ls, 1, i) \o Copies(ls[i], k)
                                       \o SubSeq(ls, i + 1, Len(ls)), <<LF>>))]

\* the i-th line of file p taken out of it and added to file q
withMovedLine(fsys, p, i, q) ==
    LET ls == Split(fsys[p].data, LF)
        rest == SubSeq(ls, 1, i - 1) \o SubSeq(ls, i + 1, Len(ls))
        target == IF fsys[q].st = "absent" THEN <<ls[i]>>
                  ELSE Append(Split(fsys[q].data, LF), ls[i])
    IN [fsys EXCEPT ![p] = File(Join(rest, <<LF>>)), ![q] = File(Join(target, <<LF>>))]

\* C7: the merged file is the same for every order in which the candidate
\* files are read, and does not change when a line is repeated within a file
\* or moved from one candidate file to another.  The file is written from the
\* accumulated set alone, so equal sets give equal files.
C7_MergeDeterminism ==
    mergedWritten =>
        LET files == subdomainFiles(variant, domain)
            uniq == combineFold(fs, files, {})
        IN /\ mergedBytes = writeUniqueSubdomainsToFile(uniq)
           /\ \A o \in FileOrders :
                 combineFold(fs, [i \in 1..Len(files) |-> files[o[i]]], {}) = uniq
           /\ \A p \in presentCandidates :
              \A i \in 1..Len(Split(fs[p].data, LF)) :
                 /\ \A k \in 1..MaxRepeat :
                       combineFold(withRepeatedLine(fs, p, i, k), files, {}) = uniq
                 /\ \A q \in Range(files) \ {p} :
                       combineFold(withMovedLine(fs, p, i, q), files, {}) = uniq

\* C7 witness: the merge has run on files whose lines are not in ascending
\* order in the order the files are read, with absent files in between
C7_Witness ==
    /\ mergedWritten
    /\ fs[subdomainFiles(variant, domain)[2]].data = <<"b">>
    /\ fs[subdomainFiles(variant, domain)[4]].data = <<"a">>
    /\ fs[subdomainFiles(variant, domain)[1]].st = "absent"
    /\ fs[subdomainFiles(variant, domain)[3]].st = "absent"
    /\ mergedBytes = <<"a", LF, "b", LF>>


(***************************************************************************)
(* Claims about a pipeline run (specification Spec).                       *)
(***************************************************************************)
\* substitution tokens no variant defines
UnknownTokens == {"{unknown}", "{{unknown}}", "{{.unknown}}", "{{"}

\* config.json holds such a token in some argument template of some tool
hasUnknownToken ==
    \E t \in Tools : \E i \in 1..Len(config[t]) : \E j \in 1..Len(config[t][i]) :
        config[t][i][j] \in UnknownTokens

\* main is at or past the first step after the fan-out stage
DownstreamPcs ==
    {"crt", "crt_curl", "crt_write", "combine", "combine_write", "findips", "findips_run",
     "httpx", "httpx_run", "normalize", "normalize_write", "naabu", "naabu_run",
     "nuclei", "nuclei_run", "done"}

\* C1: no step after the fan-out stage (crt.sh collection, merge, any
\* sequential stage) is reached before all four discovery commands have been
\* run and have terminated
C1_JoinBeforeProceed ==
    (~hasUnknownToken /\ mainPc \in DownstreamPcs) =>
        \A t \in DiscoveryTools : cmd[t] \in Terminated

\* main is inside the fan-out stage or its join
FanoutPcs == {"fanout", "wait_amass", "wait_subfinder", "wait_assetfinder", "wait_findomain",
              "wgWait"}

\* C1 for the refactored variant alone, whose WaitGroups do join
C1_JoinBeforeProceed_Refactored ==
    (variant = "refactored" /\ mainPc \in DownstreamPcs) =>
        \A t \in DiscoveryTools : cmd[t] \in Terminated

\* C2: whatever subset of the discovery tools fails, the fan-out stage returns
\* only with all four terminated and with the output file of every tool that
\* succeeded in place, no failure of a tool ends the run during the fan-out,
\* and with all four terminated the driver can go on
C2_PartialFailureTolerated ==
    /\ (~hasUnknownToken /\ mainPc \in DownstreamPcs) =>
          \A t \in DiscoveryTools :
             /\ cmd[t] \in Terminated
             /\ cmd[t] = "ok" => fs[toolOutput(t, domain)].st = "complete"
    /\ (exited /\ mainPc \in FanoutPcs) => exitCause \in {"signal", "killed", "render"}
    /\ (~exited /\ mainPc = "wgWait" /\ \A t \in DiscoveryTools : cmd[t] \in Terminated) =>
          (ENABLED findSubdomains_join \/ ENABLED wgWait)

\* the four sequential tools in pipeline order
StageOrder == <<"massdns", "httpx", "naabu", "nuclei">>

\* C3: the sequential stages run one after the other, after the merge: a
\* stage's tool is started only when the tool of every earlier stage has
\* terminated, the normalizer runs between httpx and naabu, and no two
\* sequential tools run at the same time
C3_StagesTotallyOrdered ==
    /\ \A i, j \in 1..Len(StageOrder) :
          (i < j /\ cmd[StageOrder[j]] # "none") => cmd[StageOrder[i]] \in Terminated
    /\ Cardinality({s \in SeqTools : cmd[s] = "running"}) <= 1
    /\ cmd["massdns"] # "none" => fs[subdomainsOutput(domain)].st = "complete"
    /\ mainPc \in {"normalize", "normalize_write"} =>
          (cmd["httpx"] \in Terminated /\ cmd["naabu"] = "none")
    /\ cmd["naabu"] # "none" => fs[sortedHttpxOutput(domain)].st = "complete"
    /\ \A s \in SeqTools : (cmd[s] = "running" /\ ~exited) => mainPc = RunPc[s]

\* C3 witness: naabu is running after massdns and httpx have terminated and
\* the normalized file has been written
C3_Witness ==
    /\ cmd["naabu"] = "running"
    /\ cmd["massdns"] \in Terminated
    /\ cmd["httpx"] = "ok"
    /\ fs[sortedHttpxOutput(domain)].st = "complete"

\* C4: a run with both arguments, a loaded configuration, the result
\* directory, a JSON array from crt.sh, a probe file to read, no write error,
\* no signal, no bad template, and every child process terminated, ends with
\* exit status 0 after its last stage
C4_ReachesSuccess ==
    (/\ exited
     /\ nargs = 3
     /\ ~hasUnknownToken
     /\ dirCreated
     /\ crtResp.kind = "array"
     /\ fs[httpxOutput(domain)].st = "complete"
     /\ exitCause \notin {"config", "mkdir", "io_write", "signal", "killed", "render",
                          "crt_transport"}
     /\ \A p \in DiscoveryTools \cup {"curl"} : cmd[p] \in Terminated
     /\ \A s \in SeqTools : cmd[s] # "running")
    => (exitCode = 0 /\ exitCause = "done" /\ \A s \in SeqTools : cmd[s] \in Terminated)

\* C5: when the tool of a sequential stage has failed, the run does not end
\* for that reason: if it ends (other than by a signal, a write error, or the
\* wait-group panic of C22) it ends after every later stage was attempted
C5_SequentialFailureTolerated ==
    (/\ exited
     /\ ~hasUnknownToken
     /\ \E s \in SeqTools : cmd[s] = "failed"
     /\ exitCause \notin {"signal", "killed", "io_write", "wg_panic", "normalize_panic"})
    => (exitCause = "done" /\ \A s \in SeqTools : cmd[s] \in Terminated)

\* the files the five producers write
producerFiles == {toolOutput(t, domain) : t \in DiscoveryTools} \cup {crtOutput(domain)}

\* C8: the reducer reads exactly the files the four discovery tools and the
\* crt.sh collector write, and once the merged file is written it holds every
\* hostname of <domain>.crt.txt
C8_MergeOfAllProducers ==
    (/\ ~hasUnknownToken
     /\ mainPc \in {"findips", "findips_run"}
     /\ fs[subdomainsOutput(domain)].st = "complete") =>
        /\ Range(subdomainFiles(variant, domain)) = producerFiles
        /\ fs[crtOutput(domain)].st = "complete" =>
              fileLines(fs[crtOutput(domain)].data) \subseteq Range(linesOf(mergedBytes))

\* C9: when some argument template of some configured tool holds an
\* unrecognized token, no external process is ever spawned
C9_FailFastRendering ==
    hasUnknownToken => \A p \in Procs : cmd[p] \notin {"running", "ok"}


(***************************************************************************)
(* Command rendering over arbitrary argument templates (SpecRender): the   *)
(* fan-out of either variant, and findIPs of the refactored variant, the   *)
(* one sequential stage whose startCmd a refactored run gets to.           *)
(***************************************************************************)
\* argument templates a config.json may hold
RenderTemplates ==
    {<<"-d">>, <<"{domain}">>, <<"{output}">>, <<"{outputFile}">>, <<"{resolvers}">>,
     <<"{dir}", "/", "{domain}">>,
     <<"{{.domain}}">>, <<"{{.outputFile}}">>, <<"{{.toolsDir}}", "/", "{{.domain}}">>,
     <<"{{unknown}}">>}

\* os.Args[1]: a hostname, or text that reads like a token
RenderDomains == {<<"d">>, <<"{dir}">>}

\* main has installed the signal handler and is about to fan out
InitRender_fanout ==
    /\ variant \in {"legacy", "refactored"}
    /\ \E args \in SeqsUpTo(RenderTemplates, MaxArgs) :
          config = [t \in Tools |-> IF t \in DiscoveryTools THEN args
                                    ELSE goodArgs(variant, t)]
    /\ mainPc = "fanout"
    /\ cmd = [p \in Procs |-> "none"]
    /\ cmdArgs = [p \in Procs |-> <<>>]
    /\ fsPc = "idle"
    /\ fs = [p \in Paths(domain) |-> AbsentFile]
    /\ crtResp = NoResponse
    /\ crtServer = PipelineCrtResponses

\* refactored main is about to call findIPs: the four discovery tools have
\* failed, crt.sh has answered, both files are written
InitRender_findIPs ==
    /\ variant = "refactored"
    /\ \E args \in SeqsUpTo(RenderTemplates, MaxArgs) :
          config = [t \in Tools |-> IF t = "massdns" THEN args ELSE goodArgs(variant, t)]
    /\ mainPc = "findips"
    /\ cmd = [p \in Procs |-> IF p \in DiscoveryTools THEN "failed"
                              ELSE IF p = "curl" THEN "ok" ELSE "none"]
    /\ cmdArgs = [p \in Procs |->
                    IF p \in DiscoveryTools
                    THEN renderTool(variant, p, goodArgs(variant, p), domain, resolversFile).argv
                    ELSE <<>>]
    /\ fsPc = "done"
    /\ crtServer = PipelineCrtResponses
    /\ crtResp \in {r \in crtServer : ~unmarshalFails(r)}
    /\ LET crtFs == [p \in Paths(domain) |->
                       IF p = crtOutput(domain)
                       THEN File(writeUniqueSubdomainsToFile(crtSubdomains(crtResp)))
                       ELSE AbsentFile]
       IN fs = [crtFs EXCEPT ![subdomainsOutput(domain)] =
                   File(writeUniqueSubdomainsToFile(
                       combineFold(crtFs, subdomainFiles(variant, domain), {})))]

InitRender ==
    /\ nargs = 3
    /\ domain \in RenderDomains
    /\ resolversFile = <<"r">>
    /\ exited = FALSE
    /\ exitCode = -1
    /\ exitCause = "none"
    /\ dirCreated = TRUE
    /\ mkdirCalls = 1
    /\ handlerInstalled = TRUE
    /\ signalPending = FALSE
    /\ signalSeen = FALSE
    /\ wg = 0
    /\ cmdWg = 0
    /\ seqWg = 0
    /\ wbuf = <<>>
    /\ (InitRender_fanout \/ InitRender_findIPs)

NextRender ==
    \/ findSubdomains_legacy
    \/ findSubdomains_go
    \/ findSubdomains_loop
    \/ stage_start("massdns")

SpecRender == InitRender /\ [][NextRender]_vars

\* the context value a token stands for, by key, for tool t of this run
contextValue(t, key) ==
    CASE key = "domain" -> domain
      [] key = "resolversFile" -> resolversFile
      [] key = "outputDir" -> <<ResultDir>>
      [] key = "outputFile" -> IF t = "massdns" THEN ipsOutput(domain)
                               ELSE toolOutput(t, domain)
      [] key = "inputFile" -> IF t \in {"naabu", "nuclei"} THEN sortedHttpxOutput(domain)
                              ELSE subdomainsOutput(domain)
      [] key = "toolsDir" -> ToolsDir

\* the key of a recognized token, "" for any other text: the nine tokens of
\* the configuration format and, in the refactored variant, the same keys
\* spelled as template fields
tokenKey(sym) ==
    CASE sym \in {"{domain}"} -> "domain"
      [] sym \in {"{resolversFile}", "{resolvers}"} -> "resolversFile"
      [] sym \in {"{outputDir}", "{dir}"} -> "outputDir"
      [] sym \in {"{inputFile}"} -> "inputFile"
      [] sym \in {"{outputFile}", "{output}"} -> "outputFile"
      [] sym \in {"{toolsDir}"} -> "toolsDir"
      [] variant = "refactored" /\ sym \in FieldActions \ {"{{.unknown}}"} -> fieldKey(sym)
      [] OTHER -> ""

\* every occurrence of every recognized token replaced, all at once
RECURSIVE substituted(_, _)
substituted(t, template) ==
    IF template = <<>> THEN <<>>
    ELSE (IF tokenKey(Head(template)) = "" THEN <<Head(template)>>
          ELSE contextValue(t, tokenKey(Head(template))))
         \o substituted(t, Tail(template))

\* the tools whose argv this run has rendered from config.json
renderedTools ==
    {t \in Tools : /\ cmd[t] # "none"
                   /\ t \in DiscoveryTools \/ variant = "refactored"}

\* C10: the argv rendered for a tool has the length and order of its template
\* list, and each argument is its template with every recognized token
\* replaced by the context value (a template without tokens unchanged)
C10_RenderingResult ==
    \A t \in renderedTools :
        /\ Len(cmdArgs[t]) = Len(config[t])
        /\ \A i \in 1..Len(config[t]) : cmdArgs[t][i] = substituted(t, config[t][i])

\* C10 without the substitution: length and order alone
C10_LengthPreserved ==
    \A t \in renderedTools : Len(cmdArgs[t]) = Len(config[t])


(***************************************************************************)
(* The probe-result normalizer over arbitrary probe files (SpecNormalize): *)
(* a legacy run whose httpx has just written its report.  A refactored run *)
(* ends in findIPs and never gets here; its normalizer code is the same.   *)
(***************************************************************************)
\* number of lines of a probe file
MaxLines == 2

\* first fields of a probe line: a bare host, a host behind one scheme, a
\* token with a scheme inside it, a token with two schemes, a colored host
ProbeHosts ==
    {<<"a">>, <<"https://", "z">>, <<"http://", "a">>, <<"z", "https://", "a">>,
     <<"https://", "http://", "z">>, <<"ESC", "[", "3", "m", "z">>}

\* what follows the first field: nothing, a status in brackets, a word
ProbeStatuses ==
    {<<>>, <<" ", "[", "2", "]">>, <<" ", "[", "4", "]">>, <<" ", "x">>}

\* lines of a probe file: host and status, and a line of white space
ProbeLines == {h \o st : h \in ProbeHosts, st \in ProbeStatuses} \cup {<<" ">>}

\* the bytes of a probe file of the given lines, each ended by a line break
probeBytes(ls) == IF ls = <<>> THEN <<>> ELSE Join(ls, <<LF>>) \o <<LF>>

\* legacy main is inside scanHttpx, httpx has returned: the discovery tools
\* and massdns have failed, crt.sh has answered, httpx has written its file
InitNormalize ==
    /\ variant = "legacy"
    /\ nargs = 3
    /\ domain = <<"d">>
    /\ resolversFile = <<"r">>
    /\ config = PipelineConfig(variant, "none")
    /\ mainPc = "normalize"
    /\ exited = FALSE
    /\ exitCode = -1
    /\ exitCause = "none"
    /\ dirCreated = TRUE
    /\ mkdirCalls = 1
    /\ handlerInstalled = TRUE
    /\ signalPending = FALSE
    /\ signalSeen = FALSE
    /\ cmd = [p \in Procs |-> IF p \in {"curl", "httpx"} THEN "ok"
                              ELSE IF p \in {"naabu", "nuclei"} THEN "none" ELSE "failed"]
    /\ cmdArgs = [p \in Procs |->
                    IF p \in DiscoveryTools
                    THEN renderTool(variant, p, config[p], domain, resolversFile).argv
                    ELSE IF p \in {"massdns", "httpx"}
                    THEN legacyArgv(p, domain, resolversFile)
                    ELSE <<>>]
    /\ fsPc = "idle"
    /\ wg = 0
    /\ cmdWg = 0
    /\ seqWg = 0
    /\ wbuf = <<>>
    /\ crtServer = PipelineCrtResponses
    /\ crtResp = [kind |-> "array",
                  entries |-> << [type |-> "string", name |-> <<"*.", "e">>] >>]
    /\ \E ls \in SeqsUpTo(ProbeLines, MaxLines) :
          fs = [p \in Paths(domain) |->
                  IF p \in {crtOutput(domain), subdomainsOutput(domain)}
                  THEN File(<<"e", LF>>)
                  ELSE IF p = httpxOutput(domain) THEN File(probeBytes(ls))
                  ELSE AbsentFile]

NextNormalize == scanHttpx_normalize \/ scanHttpx_written

SpecNormalize == InitNormalize /\ [][NextNormalize]_vars

\* the lines the normalizer sorts, and the file it has written
probeLines == sortedLinesOf(fs[httpxOutput(domain)].data)
normalizedWritten == mainPc = "naabu" /\ fs[sortedHttpxOutput(domain)].st = "complete"
normalizedLines == linesOf(fs[sortedHttpxOutput(domain)].data)

\* the status code of a line: 0 when the second field is missing or no integer
lineStatus(line) == IF Len(Fields(line)) < 2 THEN 0 ELSE Atoi(Fields(line)[2])

\* a line whose status token is missing or not an integer
badStatus(line) ==
    \/ Len(Fields(line)) < 2
    \/ LET f == Fields(line)[2]
           body == IF Head(f) \in {"+", "-"} THEN Tail(f) ELSE f
       IN body = <<>> \/ \E i \in 1..Len(body) : body[i] \notin Digits

\* the first field without one leading scheme
leadingSchemeStripped(tok) ==
    IF tok # <<>> /\ Head(tok) \in {"https://", "http://"} THEN Tail(tok) ELSE tok

\* the host of a line: its first field (none: the empty text), scheme stripped
lineHost(line) ==
    IF Fields(line) = <<>> THEN <<>> ELSE leadingSchemeStripped(Fields(line)[1])

\* the one arrangement of 1..Len(ls) that is ascending by status and keeps
\* lines of equal status in file order
stableOrder(ls) ==
    CHOOSE q \in Perms(Len(ls)) :
        \A i, j \in 1..Len(ls) :
            i < j => \/ lineStatus(ls[q[i]]) < lineStatus(ls[q[j]])
                     \/ lineStatus(ls[q[i]]) = lineStatus(ls[q[j]]) /\ q[i] < q[j]

\* C11: a probe line whose status token is missing or not an integer never
\* crashes the normalizer: the run does not end in a panic, the normalized
\* file gets written with one host per line, and the hosts of such lines
\* come before the host of every line with a positive status
C11_BadStatusTolerated ==
    /\ exitCause # "normalize_panic"
    /\ normalizedWritten =>
          /\ Len(normalizedLines) = Len(probeLines)
          /\ \E q \in Perms(Len(probeLines)) :
                /\ \A i \in 1..Len(probeLines) :
                      normalizedLines[i] = hostOf(probeLines[q[i]])
                /\ \A i, j \in 1..Len(probeLines) :
                      (badStatus(probeLines[q[i]]) /\ lineStatus(probeLines[q[j]]) > 0)
                          => i < j

\* C11 for the lines that do not crash the normalizer: a second field that is
\* not an integer counts as status 0 and sorts first
C11_NonNumericSortsFirst ==
    normalizedWritten =>
        \E q \in Perms(Len(probeLines)) :
            /\ \A i \in 1..Len(probeLines) : normalizedLines[i] = hostOf(probeLines[q[i]])
            /\ \A i, j \in 1..Len(probeLines) :
                  (badStatus(probeLines[q[i]]) /\ lineStatus(probeLines[q[j]]) > 0) => i < j

\* C12: the normalized file holds one host per non-empty stripped probe line,
\* ascending by status code, lines of equal status in the order of the probe
\* file
C12_StableAscendingOrder ==
    normalizedWritten =>
        /\ Len(normalizedLines) = Len(probeLines)
        /\ \A i \in 1..Len(probeLines) :
              normalizedLines[i] = hostOf(probeLines[stableOrder(probeLines)[i]])

\* C12 without stability, for a probe file that has lines: one host per line,
\* in some ascending order
C12_AscendingOrder ==
    (normalizedWritten /\ probeLines # <<>>) =>
        /\ Len(normalizedLines) = Len(probeLines)
        /\ \E q \in Perms(Len(probeLines)) :
              /\ \A i \in 1..Len(probeLines) : normalizedLines[i] = hostOf(probeLines[q[i]])
              /\ \A i \in 1..(Len(probeLines) - 1) :
                    lineStatus(probeLines[q[i]]) <= lineStatus(probeLines[q[i + 1]])

\* C13: every emitted host is the first field of its line with one leading
\* scheme removed at most, a scheme inside the field left alone
C13_SchemeStripping ==
    normalizedWritten =>
        \E q \in Perms(Len(probeLines)) :
            \A i \in 1..Len(probeLines) : normalizedLines[i] = lineHost(probeLines[q[i]])


\* main is past scanCRT
AfterCrtPcs == DownstreamPcs \ {"crt", "crt_curl", "crt_write"}

\* C14: once curl has delivered a response, whatever it holds (nothing, no
\* JSON, no array, records without a string name_value), the collector does
\* not end the run: it writes <domain>.crt.txt with the names it could read
\* and main goes on; only the failure of curl itself ends the run in scanCRT
C14_CrtErrorPolicy ==
    /\ cmd["curl"] = "ok" => exitCause \notin {"crt_json", "crt_panic"}
    /\ exitCause = "crt_transport" => cmd["curl"] = "failed"
    /\ (mainPc \in AfterCrtPcs /\ cmd["curl"] = "ok") =>
          fs[crtOutput(domain)].st = "complete"

\* C14, the half that holds: a failure of curl always ends the run, and a
\* run that gets past scanCRT has written the collector's file
C14_TransportFailureFatal ==
    /\ cmd["curl"] = "failed" => (exited /\ exitCause = "crt_transport")
    /\ (mainPc \in AfterCrtPcs /\ cmd["curl"] = "ok") =>
          fs[crtOutput(domain)].st = "complete"


(***************************************************************************)
(* The certificate-transparency collector and the merge over arbitrary     *)
(* crt.sh responses (SpecCrt): main is about to call scanCRT, the four     *)
(* discovery tools have failed and left no file.                           *)
(***************************************************************************)
\* number of records of a crt.sh response
MaxEntries == 2

\* name_value strings: plain, wildcard, blank, padded, several names on
\* lines of their own
CrtNames ==
    {<<>>, <<"a">>, <<"b">>, <<"*.", "a">>, <<" ">>, <<" ", "a">>, <<"b", LF, "a">>}

\* a record: name_value a string, absent, or a number
CrtEntries ==
    {[type |-> "string", name |-> n] : n \in CrtNames}
        \cup {[type |-> "missing", name |-> <<>>], [type |-> "number", name |-> <<>>]}

CrtResponses ==
    {[kind |-> k, entries |-> <<>>] : k \in {"empty", "invalid", "object"}}
        \cup {[kind |-> "array", entries |-> es] : es \in SeqsUpTo(CrtEntries, MaxEntries)}

InitCrt ==
    /\ variant \in {"legacy", "refactored"}
    /\ nargs = 3
    /\ domain = <<"d">>
    /\ resolversFile = <<"r">>
    /\ config = PipelineConfig(variant, "none")
    /\ crtServer = CrtResponses
    /\ mainPc = "crt"
    /\ exited = FALSE
    /\ exitCode = -1
    /\ exitCause = "none"
    /\ dirCreated = TRUE
    /\ mkdirCalls = 1
    /\ handlerInstalled = TRUE
    /\ signalPending = FALSE
    /\ signalSeen = FALSE
    /\ cmd = [p \in Procs |-> IF p \in DiscoveryTools THEN "failed" ELSE "none"]
    /\ cmdArgs = [p \in Procs |->
                    IF p \in DiscoveryTools
                    THEN renderTool(variant, p, config[p], domain, resolversFile).argv
                    ELSE <<>>]
    /\ fsPc = IF variant = "refactored" THEN "done" ELSE "idle"
    /\ wg = 0
    /\ cmdWg = 0
    /\ seqWg = 0
    /\ wbuf = <<>>
    /\ crtResp = NoResponse
    /\ fs = [p \in Paths(domain) |-> AbsentFile]

NextCrt ==
    \/ scanCRT_curl
    \/ scanCRT_transportError
    \/ scanCRT_parse
    \/ scanCRT_written
    \/ combineSubdomains
    \/ combineSubdomains_written

SpecCrt == InitCrt /\ [][NextCrt]_vars

\* bytes that persist a set of hostnames: lines ended by a line break, none
\* blank, strictly ascending (so pairwise distinct)
persistedSet(bytes) ==
    \/ bytes = <<>>
    \/ /\ bytes[Len(bytes)] = LF
       /\ \A i \in 1..Len(linesOf(bytes)) : TrimSpace(linesOf(bytes)[i]) # <<>>
       /\ StrictlyAscending(linesOf(bytes))

\* C15: the file of the collector and the file of the reducer, once written,
\* persist a set of hostnames
C15_PersistedSetInvariant ==
    \A p \in {crtOutput(domain), subdomainsOutput(domain)} :
        fs[p].st = "complete" => persistedSet(fs[p].data)

\* C15 for the reducer when it has found a hostname: its lines are trimmed,
\* not blank, distinct and sorted
C15_ReducerNonEmpty ==
    (fs[subdomainsOutput(domain)].st = "complete"
        /\ fs[subdomainsOutput(domain)].data # <<LF>>)
    => persistedSet(fs[subdomainsOutput(domain)].data)


\* the file the tool of a sequential stage consumes
stageInput(s) ==
    IF s \in {"massdns", "httpx"} THEN subdomainsOutput(domain) ELSE sortedHttpxOutput(domain)

\* the file holds a line that is not blank
hasEntry(file) ==
    file.st = "complete" /\ \E i \in 1..Len(linesOf(file.data)) :
                               TrimSpace(linesOf(file.data)[i]) # <<>>

\* C16: the tool of a sequential stage runs only on an input file that
\* exists and holds at least one entry that is not blank
C16_StageGating ==
    \A s \in SeqTools : cmd[s] = "running" => hasEntry(fs[stageInput(s)])

\* C16, existence alone: a sequential tool is started only after its input
\* file has been written
C16_InputWritten ==
    \A s \in SeqTools : cmd[s] # "none" => fs[stageInput(s)].st = "complete"


\* C17: a run that has received SIGINT or SIGTERM (the handler installed or
\* not) never ends with exit status 0
C17_InterruptNonZeroExit ==
    (signalSeen /\ exited) => exitCode # 0

\* the handler goroutine gets to run once a signal sits in signalChan
SpecFair == Spec /\ WF_vars(handlerExit)

\* C17, the liveness half: a delivered signal leads to the end of the process
C17_SignalLeadsToExit == signalSeen ~> exited


\* the files the program writes itself
ownOutputs == {crtOutput(domain), subdomainsOutput(domain), sortedHttpxOutput(domain)}

\* C18: when the process has ended, by the interrupt handler or otherwise,
\* each file the program writes itself is absent or complete at its final
\* path, never partly written
C18_NoHalfWrittenOutput ==
    exited => \A p \in ownOutputs : fs[p].st \in {"absent", "complete"}

\* C19: at most four child processes run at once, and while main is past
\* the fan-out stage no discovery tool runs and at most one child runs
C19_BoundedChildConcurrency ==
    /\ Cardinality({p \in Procs : cmd[p] = "running"}) <= 4
    /\ mainPc \in DownstreamPcs =>
          /\ \A t \in DiscoveryTools : cmd[t] # "running"
          /\ Cardinality({p \in Procs : cmd[p] = "running"}) <= 1

\* C19 for the refactored variant alone
C19_BoundedChildConcurrency_Refactored ==
    variant = "refactored" => C19_BoundedChildConcurrency

\* C20: with fewer than two arguments the program does nothing but end with
\* a non-zero status: no result directory, no file, no handler, no child
\* process, and main never gets past the usage check
C20_MissingArgument ==
    nargs < 3 =>
        /\ mainPc = "start"
        /\ ~dirCreated /\ mkdirCalls = 0
        /\ ~handlerInstalled
        /\ \A p \in Paths(domain) : fs[p].st = "absent"
        /\ \A p \in Procs : cmd[p] = "none" /\ cmdArgs[p] = <<>>
        /\ fsPc = "idle" /\ wg = 0 /\ cmdWg = 0 /\ seqWg = 0
        /\ exited => exitCode # 0

\* C20 witness: the usage check has ended a run that had too few arguments
C20_Witness ==
    nargs < 3 /\ exited /\ exitCode = 1 /\ exitCause = "usage"


\* C21: the result directory is created once, before any child process is
\* created or started, and when os.MkdirAll fails the run ends there with a
\* non-zero status and no child process
C21_ResultDirectoryFirst ==
    /\ mkdirCalls <= 1
    /\ (\E p \in Procs : cmd[p] # "none") => mkdirCalls = 1
    /\ (mkdirCalls = 1 /\ ~dirCreated) =>
          /\ exited /\ exitCode # 0
          /\ mainPc = "mkdir"
          /\ \A p \in Procs : cmd[p] = "none"

\* C21 for the refactored variant alone, which checks the error of os.MkdirAll
C21_ResultDirectoryFirst_Refactored ==
    variant = "refactored" => C21_ResultDirectoryFirst

\* C21, the half that holds in both variants: one os.MkdirAll call, made
\* before any child process exists
C21_CreatedOnceBeforeTools ==
    /\ mkdirCalls <= 1
    /\ (\E p \in Procs : cmd[p] # "none") => mkdirCalls = 1

\* main has returned from the Wait call on the command of discovery tool t
waitedOn(t) ==
    /\ variant = "legacy"
    /\ mainPc \in DownstreamPcs
          \cup {WaitPc[u] : u \in {ToolOrder[j] : j \in {i \in 1..Len(ToolOrder) :
                                       \E k \in 1..(i - 1) : ToolOrder[k] = t}}}

\* C22: the counter of no WaitGroup is ever negative (main's, the one of
\* findSubdomains, the one handed to executeCmd by a sequential stage), and
\* a command that has been waited on had been started
C22_CompletionHandleBalance ==
    /\ wg >= 0
    /\ cmdWg >= 0
    /\ seqWg >= 0
    /\ \A t \in DiscoveryTools : waitedOn(t) => cmd[t] # "created"

\* C22 for the WaitGroups alone; the refactored sequential stages break it,
\* seqWg reaching -1 in executeCmd's deferred wg.Done()
C22_CountersNonNegative ==
    wg >= 0 /\ cmdWg >= 0 /\ seqWg >= 0

\* C22 for the two WaitGroups of the fan-out, which are balanced
C22_FanoutBalanced ==
    wg >= 0 /\ cmdWg >= 0


====
